---- MODULE Spec2Model ----
(***************************************************************************)
(* Invoice posting and balance reconciliation of the inventory backend     *)
(* (backend/inventory): products, sales and purchase invoices with their   *)
(* line items and loan payments, and the customer and supplier ledgers.    *)
(*                                                                         *)
(* Money is counted in whole minor units (the second decimal place of the  *)
(* DecimalFields), so quantity * price is exact.  A request is handled     *)
(* by one action; the database is autocommit outside transaction.atomic(). *)
(* A second specification runs two requests at once, statement by         *)
(* statement, on a PostgreSQL database (READ COMMITTED).                   *)
(***************************************************************************)
EXTENDS Integers, Sequences, FiniteSets, TLC

VARIABLES product, salesInvoices, purchaseInvoices, customerLedger,
          supplierLedger, last, inflight

db_vars == <<product, salesInvoices, purchaseInvoices, customerLedger, supplierLedger>>
vars == <<product, salesInvoices, purchaseInvoices, customerLedger, supplierLedger, last,
          inflight>>

(***************************************************************************)
(* Bounds of the model.                                                    *)
(***************************************************************************)
MaxQuantity == 1
MaxPrice == 2
MaxAmountPaid == 1
MaxItems == 2
MaxTransactions == 2
MaxInvoices == 2
InitQuantity == 1

(***************************************************************************)
(* Program constants.                                                      *)
(***************************************************************************)
InvoiceIdMaxLength == 50
ProductDescLimit == 15
ShortNameLimit == 10
CounterpartyLimit == 15
LowStockThresholdDefault == 10

Products == {"p1", "p2"}
Customers == {"c1"}
Suppliers == {"s1"}
NoSupplier == "none"
NoInvoice == <<>>

\* A value of the request body: absent, a text that is no number, or a number
JAbsent == [kind |-> "absent", value |-> 0]
JText == [kind |-> "text", value |-> 0]
JNum(v) == [kind |-> "number", value |-> v]

ProductName(p) == IF p = "p1" THEN <<"r", "i", "c", "e">> ELSE <<"s", "a", "l", "t">>
CustomerName(c) == IF c = "c1" THEN <<"a", "b", "c">> ELSE <<"d", "e", "f">>
SupplierName(s) == <<"x", "y", "z">>

Quantities == 1..MaxQuantity
Prices == {JText, JNum(0), JNum(MaxPrice)}
AmountsPaid == {JAbsent, JNum(MaxAmountPaid)}
\* the catalogue the postings draw on; "p2" is the product the product
\* endpoint creates
Catalogue == {"p1"}
Items == [product : Catalogue, quantity : Quantities, price : Prices]
\* the line item lists of the requests: a posting stops at its first line
\* item with an unusable price, so such an item comes last, with quantity 1
ItemLists == {items \in UNION {[1..n -> Items] : n \in 0..MaxItems} :
                \A i \in 1..Len(items) :
                    items[i].price # JNum(MaxPrice) => i = Len(items) /\ items[i].quantity = 1}
\* a posting that is no loan carries no amount_paid
PaymentTerms == {[is_loan |-> FALSE, amount_paid |-> JAbsent]}
                \cup [is_loan : {TRUE}, amount_paid : AmountsPaid]

(***************************************************************************)
(* Python helpers.                                                         *)
(***************************************************************************)
\* s[:n]
Take(s, n) == SubSeq(s, 1, IF Len(s) < n THEN Len(s) ELSE n)

\* sum(f(x) for x in seq)
RECURSIVE SumSeq(_)
SumSeq(s) == IF s = <<>> THEN 0 ELSE Head(s) + SumSeq(Tail(s))

\* str(n) for a natural number, as a sequence of characters
RECURSIVE IntToStr(_)
IntToStr(n) == IF n < 10 THEN <<ToString(n)>>
               ELSE IntToStr(n \div 10) \o <<ToString(n % 10)>>

\* ", ".join(names)
RECURSIVE Join(_)
Join(names) == IF names = <<>> THEN <<>>
               ELSE IF Len(names) = 1 THEN names[1]
               ELSE names[1] \o <<",", " ">> \o Join(Tail(names))

\* Decimal(str(price)): a number parses, anything else raises InvalidOperation
PriceParses(price) == price.kind = "number"

(***************************************************************************)
(* Product.save: the status is recomputed from quantity and threshold.     *)
(***************************************************************************)
\* variant: no out_of_stock case
Product_save_NoZero(p) ==
    [p EXCEPT !.status = IF p.quantity <= p.low_stock_threshold THEN "low_stock"
                         ELSE "in_stock"]

Product_save(p) ==
    [p EXCEPT !.status = IF p.quantity = 0 THEN "out_of_stock"
                         ELSE IF p.quantity <= p.low_stock_threshold THEN "low_stock"
                         ELSE "in_stock"]

(***************************************************************************)
(* calculate_totals, on the invoice row with its current line items.       *)
(***************************************************************************)
\* variant: any amount_paid short of the total counts as 'partial'
SalesInvoice_calculate_totals_NoUnpaid(inv) ==
    LET subtotal == SumSeq([i \in 1..Len(inv.items) |-> inv.items[i].total])
        total == subtotal
    IN [inv EXCEPT !.subtotal = subtotal,
                   !.tax_amount = 0,
                   !.total = total,
                   !.remaining_balance = IF inv.amount_paid >= total THEN 0
                                         ELSE total - inv.amount_paid,
                   !.payment_status = IF inv.amount_paid >= total THEN "paid"
                                      ELSE "partial"]

SalesInvoice_calculate_totals(inv) ==
    LET subtotal == SumSeq([i \in 1..Len(inv.items) |-> inv.items[i].total])
        total == subtotal
    IN [inv EXCEPT !.subtotal = subtotal,
                   !.tax_amount = 0,
                   !.total = total,
                   !.remaining_balance = IF inv.amount_paid >= total THEN 0
                                         ELSE total - inv.amount_paid,
                   !.payment_status = IF inv.amount_paid >= total THEN "paid"
                                      ELSE IF inv.amount_paid > 0 THEN "partial"
                                      ELSE "unpaid"]

\* variant: the subtotal is refreshed, the total is not
PurchaseInvoice_calculate_totals_StaleTotal(inv) ==
    LET subtotal == SumSeq([i \in 1..Len(inv.items) |-> inv.items[i].total])
        total == inv.total
    IN [inv EXCEPT !.subtotal = subtotal,
                   !.tax_amount = 0,
                   !.remaining_balance = IF inv.amount_paid >= total THEN 0
                                         ELSE total - inv.amount_paid,
                   !.payment_status = IF inv.amount_paid >= total THEN "paid"
                                      ELSE IF inv.amount_paid > 0 THEN "partial"
                                      ELSE "unpaid"]

PurchaseInvoice_calculate_totals(inv) ==
    LET subtotal == SumSeq([i \in 1..Len(inv.items) |-> inv.items[i].total])
        total == subtotal
    IN [inv EXCEPT !.subtotal = subtotal,
                   !.tax_amount = 0,
                   !.total = total,
                   !.remaining_balance = IF inv.amount_paid >= total THEN 0
                                         ELSE total - inv.amount_paid,
                   !.payment_status = IF inv.amount_paid >= total THEN "paid"
                                      ELSE IF inv.amount_paid > 0 THEN "partial"
                                      ELSE "unpaid"]

(***************************************************************************)
(* The database as one value: db.product, db.sales, db.purchases,          *)
(* db.cledger, db.sledger.  An invoice row carries its line items and its  *)
(* loan payments (both are deleted with it, on_delete=CASCADE).            *)
(***************************************************************************)
NewInvoice(invoice_id, party, is_loan, amount_paid) ==
    [invoice_id |-> invoice_id, party |-> party,
     subtotal |-> 0, tax_amount |-> 0, total |-> 0,
     is_loan |-> is_loan, amount_paid |-> amount_paid,
     remaining_balance |-> 0, payment_status |-> "paid",
     items |-> <<>>, loan_payments |-> <<>>]

InvoiceIds(invoices) == {invoices[i].invoice_id : i \in 1..Len(invoices)}

\* uuid.uuid4().hex[:8]: a token no existing display id holds
FreshUuid(prefix, invoices) ==
    LET k == CHOOSE n \in 0..Len(invoices) :
                 <<prefix, ToString(n)>> \notin InvoiceIds(invoices)
    IN <<prefix, ToString(k)>>

(***************************************************************************)
(* Ledger.update_balance: the full refold over the transaction list.       *)
(***************************************************************************)
\* variant: a payment is added to the balance like a sale
CustomerLedger_update_balance_PaymentsAdd(ledger) ==
    LET t == ledger.transactions
        n == Len(t)
    IN [ledger EXCEPT
          !.current_balance = SumSeq([i \in 1..n |->
                IF t[i].transaction_type \in {"sale", "interest", "payment"}
                THEN t[i].amount ELSE 0 - t[i].amount]),
          !.total_sales = SumSeq([i \in 1..n |->
                IF t[i].transaction_type = "sale" THEN t[i].amount ELSE 0]),
          !.total_payments = SumSeq([i \in 1..n |->
                IF t[i].transaction_type = "payment" THEN t[i].amount ELSE 0])]

CustomerLedger_update_balance(ledger) ==
    LET t == ledger.transactions
        n == Len(t)
    IN [ledger EXCEPT
          !.current_balance = SumSeq([i \in 1..n |->
                IF t[i].transaction_type \in {"sale", "interest"}
                THEN t[i].amount ELSE 0 - t[i].amount]),
          !.total_sales = SumSeq([i \in 1..n |->
                IF t[i].transaction_type = "sale" THEN t[i].amount ELSE 0]),
          !.total_payments = SumSeq([i \in 1..n |->
                IF t[i].transaction_type = "payment" THEN t[i].amount ELSE 0])]

\* variant: the fold is added onto the stored balance
SupplierLedger_update_balance_Incremental(ledger) ==
    LET t == ledger.transactions
        n == Len(t)
    IN [ledger EXCEPT
          !.current_balance = @ + SumSeq([i \in 1..n |->
                IF t[i].transaction_type \in {"purchase", "interest"}
                THEN t[i].amount ELSE 0 - t[i].amount]),
          !.total_purchases = SumSeq([i \in 1..n |->
                IF t[i].transaction_type = "purchase" THEN t[i].amount ELSE 0]),
          !.total_payments = SumSeq([i \in 1..n |->
                IF t[i].transaction_type = "payment" THEN t[i].amount ELSE 0])]

SupplierLedger_update_balance(ledger) ==
    LET t == ledger.transactions
        n == Len(t)
    IN [ledger EXCEPT
          !.current_balance = SumSeq([i \in 1..n |->
                IF t[i].transaction_type \in {"purchase", "interest"}
                THEN t[i].amount ELSE 0 - t[i].amount]),
          !.total_purchases = SumSeq([i \in 1..n |->
                IF t[i].transaction_type = "purchase" THEN t[i].amount ELSE 0]),
          !.total_payments = SumSeq([i \in 1..n |->
                IF t[i].transaction_type = "payment" THEN t[i].amount ELSE 0])]

Transaction(type, amount, invoice_id) ==
    [transaction_type |-> type, amount |-> amount, reference_invoice |-> invoice_id]

(***************************************************************************)
(* create_ledger_transaction of the invoice at index idx.                  *)
(***************************************************************************)
SalesInvoice_create_ledger_transaction(db, idx) ==
    LET inv == db.sales[idx]
        ledger == db.cledger[inv.party]
        t1 == Append(ledger.transactions, Transaction("sale", inv.total, inv.invoice_id))
        t2 == IF inv.amount_paid > 0
              THEN Append(t1, Transaction("payment", inv.amount_paid, inv.invoice_id))
              ELSE t1
    IN [db EXCEPT !.cledger[inv.party] =
            CustomerLedger_update_balance([ledger EXCEPT !.transactions = t2])]

\* variant: only the purchase transaction is created
PurchaseInvoice_create_ledger_transaction_NoPayment(db, idx) ==
    LET inv == db.purchases[idx]
        ledger == db.sledger[inv.party]
        t1 == Append(ledger.transactions, Transaction("purchase", inv.total, inv.invoice_id))
    IN [db EXCEPT !.sledger[inv.party] =
            SupplierLedger_update_balance([ledger EXCEPT !.transactions = t1])]

PurchaseInvoice_create_ledger_transaction(db, idx) ==
    LET inv == db.purchases[idx]
        ledger == db.sledger[inv.party]
        t1 == Append(ledger.transactions, Transaction("purchase", inv.total, inv.invoice_id))
        t2 == IF inv.amount_paid > 0
              THEN Append(t1, Transaction("payment", inv.amount_paid, inv.invoice_id))
              ELSE t1
    IN [db EXCEPT !.sledger[inv.party] =
            SupplierLedger_update_balance([ledger EXCEPT !.transactions = t2])]

(***************************************************************************)
(* InvoiceItem.save.  obj is the Product object the caller holds: save     *)
(* changes its quantity and writes the whole object back.                  *)
(***************************************************************************)
ItemRow(item, total) ==
    [product |-> item.product, quantity |-> item.quantity, price |-> item.price.value,
     total |-> total]

\* variant: the line item is stored, the product's quantity is not touched
SalesInvoiceItem_save_KeepsStock(db, idx, obj, item, skip_product_update, skip_invoice_update) ==
    LET total == item.quantity * item.price.value
        db1 == [db EXCEPT !.sales[idx].items = Append(@, ItemRow(item, total))]
    IN IF skip_invoice_update THEN db1
       ELSE [db1 EXCEPT !.sales[idx] = SalesInvoice_calculate_totals(@)]

SalesInvoiceItem_save(db, idx, obj, item, skip_product_update, skip_invoice_update) ==
    LET total == item.quantity * item.price.value
        db1 == [db EXCEPT !.sales[idx].items = Append(@, ItemRow(item, total))]
        db2 == IF skip_product_update THEN db1
               ELSE [db1 EXCEPT !.product[item.product] =
                        Product_save([obj EXCEPT !.quantity = @ - item.quantity])]
    IN IF skip_invoice_update THEN db2
       ELSE [db2 EXCEPT !.sales[idx] = SalesInvoice_calculate_totals(@)]

\* variant: skip_product_update is ignored, the quantity is always added
PurchaseInvoiceItem_save_AlwaysAdjusts(db, idx, obj, item, skip_product_update, skip_invoice_update) ==
    LET total == item.quantity * item.price.value
        db1 == [db EXCEPT !.purchases[idx].items = Append(@, ItemRow(item, total))]
        db2 == [db1 EXCEPT !.product[item.product] =
                   Product_save([obj EXCEPT !.quantity = @ + item.quantity])]
    IN IF skip_invoice_update THEN db2
       ELSE [db2 EXCEPT !.purchases[idx] = PurchaseInvoice_calculate_totals(@)]

PurchaseInvoiceItem_save(db, idx, obj, item, skip_product_update, skip_invoice_update) ==
    LET total == item.quantity * item.price.value
        db1 == [db EXCEPT !.purchases[idx].items = Append(@, ItemRow(item, total))]
        db2 == IF skip_product_update THEN db1
               ELSE [db1 EXCEPT !.product[item.product] =
                        Product_save([obj EXCEPT !.quantity = @ + item.quantity])]
    IN IF skip_invoice_update THEN db2
       ELSE [db2 EXCEPT !.purchases[idx] = PurchaseInvoice_calculate_totals(@)]

(***************************************************************************)
(* The generated display id of a posting.                                  *)
(***************************************************************************)
ProductDesc(product_names) ==
    IF Len(product_names) = 1 THEN Take(product_names[1], ProductDescLimit)
    ELSE IF Len(product_names) <= 2
         THEN Join([i \in 1..Len(product_names) |-> Take(product_names[i], ShortNameLimit)])
         ELSE Take(product_names[1], ShortNameLimit) \o <<" ", "+">>
              \o IntToStr(Len(product_names) - 1)

SalesInvoiceId(db, req) ==
    LET product_names == [i \in 1..Len(req.items) |-> ProductName(req.items[i].product)]
        customer_short == Take(CustomerName(req.party), CounterpartyLimit)
        invoice_id == <<"S", ":", " ">> \o ProductDesc(product_names)
                      \o <<" ", "->", " ">> \o customer_short
        fallback == <<"S", ":", " ">> \o Take(product_names[1], ShortNameLimit)
                    \o <<" ", "->", " ">> \o Take(CustomerName(req.party), ShortNameLimit)
    IN IF Len(invoice_id) > InvoiceIdMaxLength
       THEN IF Len(fallback) > InvoiceIdMaxLength
            THEN FreshUuid("SALE-", db.sales)
            ELSE fallback
       ELSE invoice_id

PurchaseInvoiceId(db, req) ==
    LET product_names == [i \in 1..Len(req.items) |-> ProductName(req.items[i].product)]
        supplier_short == Take(SupplierName(req.party), CounterpartyLimit)
        invoice_id == <<"P", ":", " ">> \o ProductDesc(product_names)
                      \o <<" ", "<-", " ">> \o supplier_short
        fallback == <<"P", ":", " ">> \o Take(product_names[1], ShortNameLimit)
                    \o <<" ", "<-", " ">> \o Take(SupplierName(req.party), ShortNameLimit)
    IN IF Len(invoice_id) > InvoiceIdMaxLength
       THEN IF Len(fallback) > InvoiceIdMaxLength
            THEN FreshUuid("PUR-", db.purchases)
            ELSE fallback
       ELSE invoice_id

\* validated_data.get('amount_paid', 0), and the model field's default 0
AmountPaidOf(req) == IF req.amount_paid.kind = "absent" THEN 0 ELSE req.amount_paid.value

\* Product.objects.get(id=...) of every line item, before the try block
AllProductsExist(db, items) == \A i \in 1..Len(items) : db.product[items[i].product].exists

Result(ok, error, retried, db) == [ok |-> ok, error |-> error, retried |-> retried, db |-> db]

(***************************************************************************)
(* CreateSalesInvoiceSerializer.create.                                    *)
(***************************************************************************)
\* the line items loop inside transaction.atomic(): "" or the error raised
RECURSIVE SalesAtomicItems(_, _, _, _)
SalesAtomicItems(db, idx, items, i) ==
    IF i > Len(items) THEN [error |-> "", db |-> db]
    ELSE LET item == items[i]
             obj == db.product[item.product]
         IN IF obj.quantity < item.quantity
            THEN [error |-> "Insufficient stock", db |-> db]
            ELSE IF ~PriceParses(item.price)
            THEN [error |-> "Invalid price format", db |-> db]
            ELSE IF item.price.value <= 0
            THEN [error |-> "Price must be greater than 0", db |-> db]
            ELSE SalesAtomicItems(SalesInvoiceItem_save(db, idx, obj, item, FALSE, FALSE),
                                  idx, items, i + 1)

\* the line items loop of the IntegrityError handler (no transaction):
\* what was written before an exception stays written
RECURSIVE SalesRetryItems(_, _, _, _)
SalesRetryItems(db, idx, items, i) ==
    IF i > Len(items) THEN [error |-> "", db |-> db]
    ELSE LET item == items[i]
             obj == db.product[item.product]
         IN IF ~PriceParses(item.price)
            THEN [error |-> "InvalidOperation", db |-> db]
            ELSE SalesRetryItems(SalesInvoiceItem_save(db, idx, obj, item, FALSE, FALSE),
                                 idx, items, i + 1)

SalesCreateAtomic(db, req, invoice_id) ==
    LET idx == Len(db.sales) + 1
        db1 == [db EXCEPT !.sales = Append(@, NewInvoice(invoice_id, req.party,
                                                        req.is_loan, AmountPaidOf(req)))]
        r == SalesAtomicItems(db1, idx, req.items, 1)
        db2 == [r.db EXCEPT !.sales[idx] = SalesInvoice_calculate_totals(@)]
    IN IF r.error # "" THEN Result(FALSE, r.error, FALSE, db)
       ELSE IF req.is_loan /\ AmountPaidOf(req) > db2.sales[idx].total
       THEN Result(FALSE, "Amount paid cannot exceed total", FALSE, db)
       ELSE Result(TRUE, "", FALSE, SalesInvoice_create_ledger_transaction(db2, idx))

\* variant: the handler enters the invoice in the ledger a second time
SalesCreateRetry_LedgerTwice(db, req) ==
    LET idx == Len(db.sales) + 1
        db1 == [db EXCEPT !.sales = Append(@, NewInvoice(FreshUuid("SALE-", db.sales),
                                              req.party, req.is_loan, AmountPaidOf(req)))]
        r == SalesRetryItems(db1, idx, req.items, 1)
        db2 == [r.db EXCEPT !.sales[idx] = SalesInvoice_calculate_totals(@)]
    IN IF r.error # "" THEN Result(FALSE, r.error, TRUE, r.db)
       ELSE Result(TRUE, "", TRUE,
                   SalesInvoice_create_ledger_transaction(
                       SalesInvoice_create_ledger_transaction(db2, idx), idx))

SalesCreateRetry(db, req) ==
    LET idx == Len(db.sales) + 1
        db1 == [db EXCEPT !.sales = Append(@, NewInvoice(FreshUuid("SALE-", db.sales),
                                              req.party, req.is_loan, AmountPaidOf(req)))]
        r == SalesRetryItems(db1, idx, req.items, 1)
        db2 == [r.db EXCEPT !.sales[idx] = SalesInvoice_calculate_totals(@)]
    IN IF r.error # "" THEN Result(FALSE, r.error, TRUE, r.db)
       ELSE Result(TRUE, "", TRUE, SalesInvoice_create_ledger_transaction(db2, idx))

CreateSalesInvoiceSerializer_create(db, req) ==
    IF ~AllProductsExist(db, req.items) THEN Result(FALSE, "DoesNotExist", FALSE, db)
    ELSE LET invoice_id == SalesInvoiceId(db, req)
         IN IF invoice_id \in InvoiceIds(db.sales)
            THEN SalesCreateRetry(db, req)
            ELSE SalesCreateAtomic(db, req, invoice_id)

(***************************************************************************)
(* CreatePurchaseInvoiceSerializer.create: one atomic block, no retry.     *)
(***************************************************************************)
RECURSIVE PurchaseAtomicItems(_, _, _, _)
PurchaseAtomicItems(db, idx, items, i) ==
    IF i > Len(items) THEN [error |-> "", db |-> db]
    ELSE LET item == items[i]
             obj == db.product[item.product]
         IN IF ~PriceParses(item.price)
            THEN [error |-> "Invalid price format", db |-> db]
            ELSE IF item.price.value <= 0
            THEN [error |-> "Price must be greater than 0", db |-> db]
            ELSE PurchaseAtomicItems(PurchaseInvoiceItem_save(db, idx, obj, item, FALSE, FALSE),
                                     idx, items, i + 1)

PurchaseCreateAtomic(db, req, invoice_id) ==
    LET idx == Len(db.purchases) + 1
        db1 == [db EXCEPT !.purchases = Append(@, NewInvoice(invoice_id, req.party,
                                                            req.is_loan, AmountPaidOf(req)))]
        r == PurchaseAtomicItems(db1, idx, req.items, 1)
        db2 == [r.db EXCEPT !.purchases[idx] = PurchaseInvoice_calculate_totals(@)]
    IN IF r.error # "" THEN Result(FALSE, r.error, FALSE, db)
       ELSE IF req.is_loan /\ AmountPaidOf(req) > db2.purchases[idx].total
       THEN Result(FALSE, "Amount paid cannot exceed total", FALSE, db)
       ELSE Result(TRUE, "", FALSE, PurchaseInvoice_create_ledger_transaction(db2, idx))

CreatePurchaseInvoiceSerializer_create(db, req) ==
    IF ~AllProductsExist(db, req.items) THEN Result(FALSE, "DoesNotExist", FALSE, db)
    ELSE LET invoice_id == PurchaseInvoiceId(db, req)
         IN IF invoice_id \in InvoiceIds(db.purchases)
            THEN Result(FALSE, "IntegrityError", FALSE, db)
            ELSE PurchaseCreateAtomic(db, req, invoice_id)

(***************************************************************************)
(* destroy: the invoice is loaded with its line items and, by              *)
(* select_related, one Product object per line item, all read at load      *)
(* time (loaded is the database then); each object is changed and written  *)
(* back whole.  Deleting the invoice nulls the ledger references to it.    *)
(***************************************************************************)
\* variant: the transactions that refer to the invoice are deleted with it
ClearReference_Cascade(ledger, invoice_id) ==
    [ledger EXCEPT !.transactions =
        SelectSeq(@, LAMBDA t : t.reference_invoice # invoice_id)]

ClearReference(ledger, invoice_id) ==
    [ledger EXCEPT !.transactions =
        [i \in 1..Len(@) |-> IF @[i].reference_invoice = invoice_id
                             THEN [@[i] EXCEPT !.reference_invoice = NoInvoice]
                             ELSE @[i]]]

RemoveAt(s, idx) == SubSeq(s, 1, idx - 1) \o SubSeq(s, idx + 1, Len(s))

RECURSIVE SalesRestoreItems(_, _, _, _)
SalesRestoreItems(db, loaded, items, i) ==
    IF i > Len(items) THEN db
    ELSE LET item == items[i]
             obj == loaded.product[item.product]
         IN SalesRestoreItems(
                [db EXCEPT !.product[item.product] =
                    Product_save([obj EXCEPT !.quantity = @ + item.quantity])],
                loaded, items, i + 1)

SalesInvoiceViewSet_destroy(db, idx) ==
    LET instance == db.sales[idx]
        db1 == SalesRestoreItems(db, db, instance.items, 1)
    IN [db1 EXCEPT !.sales = RemoveAt(@, idx),
                   !.cledger = [c \in Customers |->
                                  ClearReference(@[c], instance.invoice_id)]]

RECURSIVE PurchaseReduceItems(_, _, _, _)
PurchaseReduceItems(db, loaded, items, i) ==
    IF i > Len(items) THEN db
    ELSE LET item == items[i]
             obj == loaded.product[item.product]
         IN PurchaseReduceItems(
                [db EXCEPT !.product[item.product] =
                    Product_save([obj EXCEPT !.quantity = @ - item.quantity])],
                loaded, items, i + 1)

PurchaseInvoiceViewSet_destroy(db, idx) ==
    LET instance == db.purchases[idx]
        db1 == PurchaseReduceItems(db, db, instance.items, 1)
    IN [db1 EXCEPT !.purchases = RemoveAt(@, idx),
                   !.sledger = [s \in Suppliers |->
                                  ClearReference(@[s], instance.invoice_id)]]

(***************************************************************************)
(* add_payment.  A number is a Decimal or a float: Decimal + float raises  *)
(* TypeError, comparisons between the two work.                            *)
(***************************************************************************)
Dec(v) == [type |-> "Decimal", value |-> v]
Float(v) == [type |-> "float", value |-> v]

\* d + x for a Decimal field d
Decimal_add(d, x) == IF x.type = "float" THEN [raises |-> TRUE, value |-> 0]
                     ELSE [raises |-> FALSE, value |-> d + x.value]

PaymentResult(ok, error, inv) == [ok |-> ok, error |-> error, inv |-> inv]

\* variant: no check of amount_paid + amount against the total
SalesInvoice_add_payment_NoLimit(inv, amount) ==
    IF ~inv.is_loan THEN PaymentResult(FALSE, "ValueError", inv)
    ELSE IF amount.value <= 0 THEN PaymentResult(FALSE, "ValueError", inv)
    ELSE IF Decimal_add(inv.amount_paid, amount).raises
    THEN PaymentResult(FALSE, "TypeError", inv)
    ELSE PaymentResult(TRUE, "",
            SalesInvoice_calculate_totals(
                [inv EXCEPT !.loan_payments = Append(@, amount.value),
                            !.amount_paid = Decimal_add(@, amount).value]))

SalesInvoice_add_payment(inv, amount) ==
    IF ~inv.is_loan THEN PaymentResult(FALSE, "ValueError", inv)
    ELSE IF amount.value <= 0 THEN PaymentResult(FALSE, "ValueError", inv)
    ELSE IF Decimal_add(inv.amount_paid, amount).raises
    THEN PaymentResult(FALSE, "TypeError", inv)
    ELSE IF Decimal_add(inv.amount_paid, amount).value > inv.total
    THEN PaymentResult(FALSE, "ValueError", inv)
    ELSE PaymentResult(TRUE, "",
            SalesInvoice_calculate_totals(
                [inv EXCEPT !.loan_payments = Append(@, amount.value),
                            !.amount_paid = Decimal_add(@, amount).value]))

\* variant: amount_paid grows, no LoanPayment row is created
PurchaseInvoice_add_payment_NoRecord(inv, amount) ==
    IF ~inv.is_loan THEN PaymentResult(FALSE, "ValueError", inv)
    ELSE IF amount.value <= 0 THEN PaymentResult(FALSE, "ValueError", inv)
    ELSE IF Decimal_add(inv.amount_paid, amount).raises
    THEN PaymentResult(FALSE, "TypeError", inv)
    ELSE IF Decimal_add(inv.amount_paid, amount).value > inv.total
    THEN PaymentResult(FALSE, "ValueError", inv)
    ELSE PaymentResult(TRUE, "",
            PurchaseInvoice_calculate_totals(
                [inv EXCEPT !.amount_paid = Decimal_add(@, amount).value]))

\* variant: no check that the amount is positive
PurchaseInvoice_add_payment_Refund(inv, amount) ==
    IF ~inv.is_loan THEN PaymentResult(FALSE, "ValueError", inv)
    ELSE IF Decimal_add(inv.amount_paid, amount).raises
    THEN PaymentResult(FALSE, "TypeError", inv)
    ELSE IF Decimal_add(inv.amount_paid, amount).value > inv.total
    THEN PaymentResult(FALSE, "ValueError", inv)
    ELSE PaymentResult(TRUE, "",
            PurchaseInvoice_calculate_totals(
                [inv EXCEPT !.loan_payments = Append(@, amount.value),
                            !.amount_paid = Decimal_add(@, amount).value]))

PurchaseInvoice_add_payment(inv, amount) ==
    IF ~inv.is_loan THEN PaymentResult(FALSE, "ValueError", inv)
    ELSE IF amount.value <= 0 THEN PaymentResult(FALSE, "ValueError", inv)
    ELSE IF Decimal_add(inv.amount_paid, amount).raises
    THEN PaymentResult(FALSE, "TypeError", inv)
    ELSE IF Decimal_add(inv.amount_paid, amount).value > inv.total
    THEN PaymentResult(FALSE, "ValueError", inv)
    ELSE PaymentResult(TRUE, "",
            PurchaseInvoice_calculate_totals(
                [inv EXCEPT !.loan_payments = Append(@, amount.value),
                            !.amount_paid = Decimal_add(@, amount).value]))

\* PurchaseInvoiceViewSet.add_payment: request.data.get('amount') is absent,
\* not a number, or a number; the response status and the invoice row
Response(status, inv) == [status |-> status, inv |-> inv]

PurchaseInvoiceViewSet_add_payment(inv, raw) ==
    IF ~inv.is_loan THEN Response(400, inv)
    ELSE IF raw.kind = "absent" \/ raw = JNum(0) THEN Response(400, inv)
    ELSE IF raw.kind = "text" THEN Response(400, inv)
    ELSE LET amount == Float(raw.value)
         IN IF amount.value <= 0 THEN Response(400, inv)
            ELSE IF Decimal_add(inv.amount_paid, amount).raises THEN Response(500, inv)
            ELSE IF Decimal_add(inv.amount_paid, amount).value > inv.total
            THEN Response(400, inv)
            ELSE LET r == PurchaseInvoice_add_payment(inv, amount)
                 IN IF r.ok THEN Response(200, r.inv)
                    ELSE IF r.error = "ValueError" THEN Response(400, inv)
                    ELSE Response(500, inv)

(***************************************************************************)
(* ProductViewSet.perform_create.  The supplier key may be missing from    *)
(* the request ("omitted"), null (NoSupplier) or a supplier.               *)
(***************************************************************************)
Omitted == "omitted"

NewProduct(quantity, price, supplier, low_stock_threshold) ==
    Product_save([exists |-> TRUE, quantity |-> quantity, price |-> price,
                  supplier |-> supplier, status |-> "in_stock",
                  low_stock_threshold |-> low_stock_threshold])

\* variant: the auto-generated invoice is entered in the supplier's ledger
ProductViewSet_perform_create_Ledger(db, req) ==
    IF req.supplier = Omitted
    THEN Result(FALSE, "KeyError", FALSE, db)
    ELSE IF req.amount_paid.kind # "absent"
    THEN Result(FALSE, "TypeError", FALSE, db)
    ELSE LET db1 == [db EXCEPT !.product[req.product] =
                        NewProduct(req.quantity, req.price, req.supplier,
                                   req.low_stock_threshold)]
             obj == db1.product[req.product]
         IN IF obj.supplier # NoSupplier /\ obj.quantity > 0
            THEN LET idx == Len(db1.purchases) + 1
                     total_cost == obj.price * obj.quantity
                     db2 == [db1 EXCEPT !.purchases = Append(@,
                                NewInvoice(FreshUuid("PUR-T", db1.purchases), obj.supplier,
                                           FALSE, total_cost))]
                     item == [product |-> req.product, quantity |-> obj.quantity,
                              price |-> JNum(obj.price)]
                     db3 == PurchaseInvoiceItem_save(db2, idx, obj, item, TRUE, FALSE)
                 IN Result(TRUE, "", FALSE,
                           PurchaseInvoice_create_ledger_transaction(
                               [db3 EXCEPT !.purchases[idx] =
                                    PurchaseInvoice_calculate_totals(@)], idx))
            ELSE Result(TRUE, "", FALSE, db1)

ProductViewSet_perform_create(db, req) ==
    IF req.supplier = Omitted
    THEN Result(FALSE, "KeyError", FALSE, db)       \* validated_data['supplier']
    ELSE IF req.amount_paid.kind # "absent"
    THEN Result(FALSE, "TypeError", FALSE, db)      \* Product(amount_paid=...) in serializer.save()
    ELSE LET db1 == [db EXCEPT !.product[req.product] =
                        NewProduct(req.quantity, req.price, req.supplier,
                                   req.low_stock_threshold)]
             obj == db1.product[req.product]
         IN IF obj.supplier # NoSupplier /\ obj.quantity > 0
            THEN LET idx == Len(db1.purchases) + 1
                     total_cost == obj.price * obj.quantity
                     amount_paid == IF req.amount_paid.kind = "absent" THEN total_cost
                                    ELSE req.amount_paid.value
                     is_loan == amount_paid < total_cost
                     db2 == [db1 EXCEPT !.purchases = Append(@,
                                NewInvoice(FreshUuid("PUR-T", db1.purchases), obj.supplier,
                                           is_loan, amount_paid))]
                     item == [product |-> req.product, quantity |-> obj.quantity,
                              price |-> JNum(obj.price)]
                     db3 == PurchaseInvoiceItem_save(db2, idx, obj, item, TRUE, FALSE)
                 IN Result(TRUE, "", FALSE,
                           [db3 EXCEPT !.purchases[idx] = PurchaseInvoice_calculate_totals(@)])
            ELSE Result(TRUE, "", FALSE, db1)

(***************************************************************************)
(* State.  last records the request just handled: the operation, whether   *)
(* it succeeded, the error raised, whether the posting went through the    *)
(* IntegrityError handler, the invoice it touched (its index, 0 if none),  *)
(* the payment amount, whether a line item asked for more than the stock,  *)
(* the response status of the payment view, and the product quantities     *)
(* before it (for a destroy that directly follows the posting of the same  *)
(* invoice: the quantities before that posting, with reverts TRUE).        *)
(***************************************************************************)
DB == [product |-> product, sales |-> salesInvoices, purchases |-> purchaseInvoices,
       cledger |-> customerLedger, sledger |-> supplierLedger]

SetDB(db) ==
    /\ product' = db.product
    /\ salesInvoices' = db.sales
    /\ purchaseInvoices' = db.purchases
    /\ customerLedger' = db.cledger
    /\ supplierLedger' = db.sledger

QuantityOf(db) == [p \in Products |-> db.product[p].quantity]
NoQuantities == [p \in Products |-> 0]

ExceedsStock(db, items) ==
    \E i \in 1..Len(items) : items[i].quantity > db.product[items[i].product].quantity

Last(op, ok, error, retried, idx, amount, exceeds, status, reverts, before) ==
    [op |-> op, ok |-> ok, error |-> error, retried |-> retried, idx |-> idx,
     amount |-> amount, exceeds_stock |-> exceeds, status |-> status,
     reverts |-> reverts, before |-> before]

SalesRequests == {[party |-> c, is_loan |-> t.is_loan, amount_paid |-> t.amount_paid,
                   items |-> items] : c \in Customers, t \in PaymentTerms, items \in ItemLists}
PurchaseRequests == {[party |-> s, is_loan |-> t.is_loan, amount_paid |-> t.amount_paid,
                      items |-> items] : s \in Suppliers, t \in PaymentTerms, items \in ItemLists}
\* low_stock_threshold of a new product: given as 0, or left at its default
Thresholds == {0, LowStockThresholdDefault}
ProductRequests == [product : Products, quantity : 0..MaxQuantity, price : {MaxPrice},
                    supplier : {Omitted, NoSupplier} \cup Suppliers,
                    amount_paid : AmountsPaid,
                    low_stock_threshold : Thresholds]
PaymentAmounts == {0 - 1, 0, MaxAmountPaid}
ViewAmounts == {JAbsent, JText} \cup {JNum(v) : v \in PaymentAmounts}

\* what the bounds count
LiveInvoices == Len(salesInvoices) + Len(purchaseInvoices)
LedgerTransactions ==
    Len(customerLedger["c1"].transactions) + Len(supplierLedger["s1"].transactions)

\* the requests in flight: one per worker of the application server.  A
\* worker holds the request it handles, the objects it has read, and the
\* rows it has written in a transaction that is not committed yet.
Workers == {"w1", "w2"}

NoProduct == [exists |-> FALSE, quantity |-> 0, price |-> 0,
              supplier |-> NoSupplier, status |-> "out_of_stock",
              low_stock_threshold |-> LowStockThresholdDefault]
NoRow == NewInvoice(<<>>, NoSupplier, FALSE, 0)
NoRequest == [party |-> NoSupplier, is_loan |-> FALSE, amount_paid |-> JAbsent, items |-> <<>>]

IdleWorker ==
    [pc |-> "idle", job |-> "none", req |-> NoRequest, i |-> 0, obj |-> NoProduct,
     invoice |-> NoRow, wrote |-> {}, pending |-> [p \in Products |-> NoProduct],
     idx |-> 0, amount |-> 0, loaded |-> NoRow,
     outcome |-> "", read |-> 0, order |-> 0]

InitialProducts ==
    [p \in Products |->
        IF p = "p1" THEN NewProduct(InitQuantity, 1, "s1", LowStockThresholdDefault)
        ELSE NoProduct]
EmptyCustomerLedger ==
    [current_balance |-> 0, total_sales |-> 0, total_payments |-> 0, transactions |-> <<>>]
EmptySupplierLedger ==
    [current_balance |-> 0, total_purchases |-> 0, total_payments |-> 0, transactions |-> <<>>]

Init ==
    /\ product = InitialProducts
    /\ salesInvoices = <<>>
    /\ purchaseInvoices = <<>>
    /\ customerLedger = [c \in Customers |-> EmptyCustomerLedger]
    /\ supplierLedger = [s \in Suppliers |-> EmptySupplierLedger]
    /\ last = Last("init", TRUE, "", FALSE, 0, 0, FALSE, 0, FALSE, NoQuantities)
    /\ inflight = [w \in Workers |-> IdleWorker]

CreateSalesInvoice ==
    \E req \in SalesRequests :
        /\ LiveInvoices < MaxInvoices
        /\ LedgerTransactions < MaxTransactions
        /\ LET r == CreateSalesInvoiceSerializer_create(DB, req)
           IN /\ SetDB(r.db)
              /\ last' = Last("create_sale", r.ok, r.error, r.retried,
                              IF r.ok THEN Len(r.db.sales) ELSE 0, 0,
                              AllProductsExist(DB, req.items) /\ ExceedsStock(DB, req.items),
                              0, FALSE, QuantityOf(DB))
              /\ UNCHANGED inflight

CreatePurchaseInvoice ==
    \E req \in PurchaseRequests :
        /\ LiveInvoices < MaxInvoices
        /\ LedgerTransactions < MaxTransactions
        /\ LET r == CreatePurchaseInvoiceSerializer_create(DB, req)
           IN /\ SetDB(r.db)
              /\ last' = Last("create_purchase", r.ok, r.error, r.retried,
                              IF r.ok THEN Len(r.db.purchases) ELSE 0, 0, FALSE,
                              0, FALSE, QuantityOf(DB))
              /\ UNCHANGED inflight

DestroySalesInvoice ==
    \E idx \in 1..Len(salesInvoices) :
        LET follows == last.op = "create_sale" /\ last.ok /\ last.idx = idx
        IN /\ SetDB(SalesInvoiceViewSet_destroy(DB, idx))
           /\ last' = Last("destroy_sale", TRUE, "", FALSE, idx, 0, FALSE, 204, follows,
                           IF follows THEN last.before ELSE NoQuantities)
           /\ UNCHANGED inflight

DestroyPurchaseInvoice ==
    \E idx \in 1..Len(purchaseInvoices) :
        LET follows == last.op = "create_purchase" /\ last.ok /\ last.idx = idx
        IN /\ SetDB(PurchaseInvoiceViewSet_destroy(DB, idx))
           /\ last' = Last("destroy_purchase", TRUE, "", FALSE, idx, 0, FALSE, 204, follows,
                           IF follows THEN last.before ELSE NoQuantities)
           /\ UNCHANGED inflight

\* variant: a successful payment is also entered in the customer's ledger
SalesAddPayment_LedgerPayment ==
    \E idx \in 1..Len(salesInvoices), amount \in PaymentAmounts :
        LET r == SalesInvoice_add_payment(salesInvoices[idx], Dec(amount))
            c == r.inv.party
        IN /\ salesInvoices' = [salesInvoices EXCEPT ![idx] = r.inv]
           /\ customerLedger' =
                IF r.ok
                THEN [customerLedger EXCEPT ![c] = CustomerLedger_update_balance(
                        [@ EXCEPT !.transactions =
                            Append(@, Transaction("payment", amount, r.inv.invoice_id))])]
                ELSE customerLedger
           /\ UNCHANGED <<product, purchaseInvoices, supplierLedger>>
           /\ last' = Last("sales_add_payment", r.ok, r.error, FALSE, idx, amount, FALSE,
                           0, FALSE, NoQuantities)
           /\ UNCHANGED inflight

SalesAddPayment ==
    \E idx \in 1..Len(salesInvoices), amount \in PaymentAmounts :
        LET r == SalesInvoice_add_payment(salesInvoices[idx], Dec(amount))
        IN /\ salesInvoices' = [salesInvoices EXCEPT ![idx] = r.inv]
           /\ UNCHANGED <<product, purchaseInvoices, customerLedger, supplierLedger>>
           /\ last' = Last("sales_add_payment", r.ok, r.error, FALSE, idx, amount, FALSE,
                           0, FALSE, NoQuantities)
           /\ UNCHANGED inflight

PurchaseAddPayment ==
    \E idx \in 1..Len(purchaseInvoices), amount \in PaymentAmounts :
        LET r == PurchaseInvoice_add_payment(purchaseInvoices[idx], Dec(amount))
        IN /\ purchaseInvoices' = [purchaseInvoices EXCEPT ![idx] = r.inv]
           /\ UNCHANGED <<product, salesInvoices, customerLedger, supplierLedger>>
           /\ last' = Last("purchase_add_payment", r.ok, r.error, FALSE, idx, amount, FALSE,
                           0, FALSE, NoQuantities)
           /\ UNCHANGED inflight

PurchaseAddPaymentRequest ==
    \E idx \in 1..Len(purchaseInvoices), raw \in ViewAmounts :
        LET r == PurchaseInvoiceViewSet_add_payment(purchaseInvoices[idx], raw)
        IN /\ purchaseInvoices' = [purchaseInvoices EXCEPT ![idx] = r.inv]
           /\ UNCHANGED <<product, salesInvoices, customerLedger, supplierLedger>>
           /\ last' = Last("add_payment_request", r.status = 200, "", FALSE, idx,
                           raw.value, FALSE, r.status, FALSE, NoQuantities)
           /\ UNCHANGED inflight

CreateProduct ==
    \E req \in ProductRequests :
        /\ ~product[req.product].exists
        /\ LiveInvoices < MaxInvoices
        /\ LET r == ProductViewSet_perform_create(DB, req)
           IN /\ SetDB(r.db)
              /\ last' = Last("perform_create", r.ok, r.error, FALSE,
                              IF Len(r.db.purchases) > Len(purchaseInvoices)
                              THEN Len(r.db.purchases) ELSE 0,
                              0, FALSE, 0, FALSE, NoQuantities)
              /\ UNCHANGED inflight

Next ==
    \/ CreateSalesInvoice
    \/ CreatePurchaseInvoice
    \/ DestroySalesInvoice
    \/ DestroyPurchaseInvoice
    \/ SalesAddPayment
    \/ PurchaseAddPayment
    \/ PurchaseAddPaymentRequest
    \/ CreateProduct

Spec == Init /\ [][Next]_vars

(***************************************************************************)
(* Two requests at once.  Each worker handles one request: a sales posting *)
(* (CreateSalesInvoiceSerializer.create, one transaction) or a payment on  *)
(* a loan invoice (add_payment, autocommit).  The variables product ...    *)
(* supplierLedger are the committed rows.  PostgreSQL at READ COMMITTED:   *)
(* a SELECT sees the committed rows and the transaction's own writes and   *)
(* never waits; an UPDATE of a row another open transaction has written    *)
(* waits for that transaction to end and then writes its values over the   *)
(* row.  Model.save() writes every column with the value the object holds. *)
(* The two workers post for different customers, so their display ids      *)
(* differ.  The ledger statements at the end of a posting are taken        *)
(* together with its commit.                                               *)
(***************************************************************************)
RaceCustomers == {"c1", "c2"}
CustomerOf(w) == IF w = "w1" THEN "c1" ELSE "c2"

\* the state the two requests start in: the initial catalogue, and one loan
\* purchase posted with a first payment
InitialPurchase ==
    [party |-> "s1", is_loan |-> TRUE, amount_paid |-> JNum(MaxAmountPaid),
     items |-> <<[product |-> "p1", quantity |-> MaxQuantity, price |-> JNum(MaxPrice)]>>]

InitialDB ==
    CreatePurchaseInvoiceSerializer_create(
        [product |-> InitialProducts, sales |-> <<>>, purchases |-> <<>>,
         cledger |-> [c \in RaceCustomers |-> EmptyCustomerLedger],
         sledger |-> [s \in Suppliers |-> EmptySupplierLedger]],
        InitialPurchase).db

\* the postings of the race: line items of the catalogue at a valid price
RaceItems == [product : Catalogue, quantity : Quantities, price : {JNum(MaxPrice)}]
RaceRequests(w) ==
    {[party |-> CustomerOf(w), is_loan |-> t.is_loan, amount_paid |-> t.amount_paid,
      items |-> items] :
        t \in PaymentTerms, items \in UNION {[1..n -> RaceItems] : n \in 1..MaxItems}}
RacePayments == 1..MaxAmountPaid

InitConcurrent ==
    /\ product = InitialDB.product
    /\ salesInvoices = InitialDB.sales
    /\ purchaseInvoices = InitialDB.purchases
    /\ customerLedger = InitialDB.cledger
    /\ supplierLedger = InitialDB.sledger
    /\ last = Last("init", TRUE, "", FALSE, 0, 0, FALSE, 0, FALSE, QuantityOf(InitialDB))
    /\ inflight = [w \in Workers |-> IdleWorker]

\* what the statements of a worker's open transaction see
View(me) ==
    [DB EXCEPT !.sales = Append(@, me.invoice),
               !.product = [p \in Products |->
                              IF p \in me.wrote THEN me.pending[p] ELSE @[p]]]

\* the transaction is rolled back, or the request ends with an error
Abort(me, error) ==
    [me EXCEPT !.pc = "done", !.outcome = error, !.wrote = {}, !.invoice = NoRow]

Commits == Cardinality({w \in Workers : inflight[w].order > 0})

\* the display id is computed and the invoice row inserted; a display id a
\* committed invoice holds raises IntegrityError, and the handler's
\* statements follow, each in autocommit
PostBegin(w) ==
    /\ inflight[w].pc = "idle"
    /\ \E req \in RaceRequests(w) :
          LET me == inflight[w]
              invoice_id == SalesInvoiceId(DB, req)
          IN /\ \A v \in Workers \ {w} :
                   inflight[v].pc \in {"post_read", "post_save", "post_finish"}
                   => inflight[v].invoice.invoice_id # invoice_id
             /\ IF ~AllProductsExist(DB, req.items)
                THEN /\ inflight' = [inflight EXCEPT ![w] =
                            Abort([me EXCEPT !.job = "post", !.req = req], "DoesNotExist")]
                     /\ UNCHANGED db_vars
                ELSE IF invoice_id \in InvoiceIds(salesInvoices)
                THEN LET r == SalesCreateRetry(DB, req)
                     IN /\ SetDB(r.db)
                        /\ inflight' = [inflight EXCEPT ![w] =
                               Abort([me EXCEPT !.job = "post", !.req = req],
                                     IF r.ok THEN "retried" ELSE r.error)]
                ELSE /\ inflight' = [inflight EXCEPT ![w] =
                            [me EXCEPT !.pc = "post_read", !.job = "post", !.req = req,
                                       !.i = 1,
                                       !.invoice = NewInvoice(invoice_id, req.party,
                                                       req.is_loan, AmountPaidOf(req))]]
                     /\ UNCHANGED db_vars
    /\ UNCHANGED last

\* Product.objects.get for the line item at hand, and the checks on it
PostRead(w) ==
    LET me == inflight[w]
        item == me.req.items[me.i]
        obj == View(me).product[item.product]
    IN /\ me.pc = "post_read"
       /\ inflight' = [inflight EXCEPT ![w] =
             IF obj.quantity < item.quantity THEN Abort(me, "Insufficient stock")
             ELSE IF ~PriceParses(item.price) THEN Abort(me, "Invalid price format")
             ELSE IF item.price.value <= 0 THEN Abort(me, "Price must be greater than 0")
             ELSE [me EXCEPT !.pc = "post_save", !.obj = obj,
                             !.read = IF me.i = 1 THEN obj.quantity ELSE @]]
       /\ UNCHANGED <<db_vars, last>>

\* variant: the quantity is lowered in the row as it is when it is written
PostSave_FromRow(w) ==
    LET me == inflight[w]
        item == me.req.items[me.i]
        idx == Len(salesInvoices) + 1
        after == SalesInvoiceItem_save(View(me), idx, View(me).product[item.product],
                                       item, FALSE, FALSE)
    IN /\ me.pc = "post_save"
       /\ \A v \in Workers \ {w} : item.product \notin inflight[v].wrote
       /\ inflight' = [inflight EXCEPT ![w] =
             [me EXCEPT !.pc = IF me.i = Len(me.req.items) THEN "post_finish"
                               ELSE "post_read",
                        !.i = @ + 1,
                        !.invoice = after.sales[idx],
                        !.pending[item.product] = after.product[item.product],
                        !.wrote = @ \cup {item.product}]]
       /\ UNCHANGED <<db_vars, last>>

\* SalesInvoiceItem.objects.create: the line item is inserted and the Product
\* object read before is lowered and saved; the UPDATE waits while the other
\* worker's open transaction has written the product's row
PostSave(w) ==
    LET me == inflight[w]
        item == me.req.items[me.i]
        idx == Len(salesInvoices) + 1
        after == SalesInvoiceItem_save(View(me), idx, me.obj, item, FALSE, FALSE)
    IN /\ me.pc = "post_save"
       /\ \A v \in Workers \ {w} : item.product \notin inflight[v].wrote
       /\ inflight' = [inflight EXCEPT ![w] =
             [me EXCEPT !.pc = IF me.i = Len(me.req.items) THEN "post_finish"
                               ELSE "post_read",
                        !.i = @ + 1,
                        !.invoice = after.sales[idx],
                        !.pending[item.product] = after.product[item.product],
                        !.wrote = @ \cup {item.product}]]
       /\ UNCHANGED <<db_vars, last>>

\* calculate_totals, the loan check, create_ledger_transaction and the commit
PostFinish(w) ==
    LET me == inflight[w]
        idx == Len(salesInvoices) + 1
        db2 == [View(me) EXCEPT !.sales[idx] = SalesInvoice_calculate_totals(@)]
    IN /\ me.pc = "post_finish"
       /\ IF me.req.is_loan /\ AmountPaidOf(me.req) > db2.sales[idx].total
          THEN /\ inflight' = [inflight EXCEPT ![w] =
                      Abort(me, "Amount paid cannot exceed total")]
               /\ UNCHANGED db_vars
          ELSE /\ SetDB(SalesInvoice_create_ledger_transaction(db2, idx))
               /\ inflight' = [inflight EXCEPT ![w] =
                      [me EXCEPT !.pc = "done", !.outcome = "committed", !.wrote = {},
                                 !.order = Commits + 1]]
       /\ UNCHANGED last

\* the caller loads the invoice it is to call add_payment on
PayLoad(w) ==
    /\ inflight[w].pc = "idle"
    /\ \E idx \in 1..Len(purchaseInvoices), amount \in RacePayments :
          inflight' = [inflight EXCEPT ![w] =
              [@ EXCEPT !.pc = "pay_record", !.job = "pay", !.idx = idx,
                        !.amount = amount, !.loaded = purchaseInvoices[idx]]]
    /\ UNCHANGED <<db_vars, last>>

\* add_payment: the checks on the loaded object, then the LoanPayment row
PayRecord(w) ==
    LET me == inflight[w]
        r == PurchaseInvoice_add_payment(me.loaded, Dec(me.amount))
    IN /\ me.pc = "pay_record"
       /\ IF r.ok
          THEN /\ purchaseInvoices' = [purchaseInvoices EXCEPT
                     ![me.idx].loan_payments = Append(@, me.amount)]
               /\ inflight' = [inflight EXCEPT ![w].pc = "pay_save"]
          ELSE /\ UNCHANGED purchaseInvoices
               /\ inflight' = [inflight EXCEPT ![w] = Abort(me, r.error)]
       /\ UNCHANGED <<product, salesInvoices, customerLedger, supplierLedger, last>>

\* add_payment: amount_paid of the loaded object is raised, calculate_totals
\* reads the line items and saves the object over the invoice row
PaySave(w) ==
    LET me == inflight[w]
        row == purchaseInvoices[me.idx]
        r == PurchaseInvoice_add_payment([me.loaded EXCEPT !.items = row.items],
                                         Dec(me.amount))
    IN /\ me.pc = "pay_save"
       /\ purchaseInvoices' = [purchaseInvoices EXCEPT
             ![me.idx] = [r.inv EXCEPT !.loan_payments = row.loan_payments]]
       /\ inflight' = [inflight EXCEPT ![w] =
             [me EXCEPT !.pc = "done", !.outcome = "paid", !.loaded = r.inv]]
       /\ UNCHANGED <<product, salesInvoices, customerLedger, supplierLedger, last>>

NextConcurrent ==
    \E w \in Workers :
        \/ PostBegin(w)
        \/ PostRead(w)
        \/ PostSave(w)
        \/ PostFinish(w)
        \/ PayLoad(w)
        \/ PayRecord(w)
        \/ PaySave(w)

SpecConcurrent == InitConcurrent /\ [][NextConcurrent]_vars

(***************************************************************************)
(* Vocabulary of the properties.                                           *)
(***************************************************************************)
AllInvoices == {salesInvoices[i] : i \in 1..Len(salesInvoices)}
               \cup {purchaseInvoices[i] : i \in 1..Len(purchaseInvoices)}

Max0(x) == IF x > 0 THEN x ELSE 0

\* total quantity of product p over the line items of an invoice
RECURSIVE QuantityNamed(_, _)
QuantityNamed(items, p) ==
    IF items = <<>> THEN 0
    ELSE (IF Head(items).product = p THEN Head(items).quantity ELSE 0)
         + QuantityNamed(Tail(items), p)

ItemTotals(inv) == SumSeq([i \in 1..Len(inv.items) |-> inv.items[i].total])

\* the three cases of the payment status, each on its own
StatusRule(inv) ==
    /\ inv.amount_paid >= inv.total => inv.payment_status = "paid"
    /\ (0 < inv.amount_paid /\ inv.amount_paid < inv.total) => inv.payment_status = "partial"
    /\ inv.amount_paid = 0 => inv.payment_status = "unpaid"

\* the same, with the unpaid case kept to invoices that have something to pay
StatusRuleOrdered(inv) ==
    /\ inv.amount_paid >= inv.total => inv.payment_status = "paid"
    /\ (0 < inv.amount_paid /\ inv.amount_paid < inv.total) => inv.payment_status = "partial"
    /\ (inv.amount_paid = 0 /\ inv.total > 0) => inv.payment_status = "unpaid"

(***************************************************************************)
(* C1.  A sales posting with a line item whose quantity exceeds the        *)
(* product's current stock fails and leaves products, invoices, line items *)
(* and ledgers as they were, also when its display id collides with an     *)
(* existing invoice's.                                                     *)
(***************************************************************************)
C1_ExcessQuantityRejected ==
    [][(last'.op = "create_sale" /\ last'.exceeds_stock)
         => (~last'.ok /\ UNCHANGED db_vars)]_vars

(***************************************************************************)
(* C2.  Deleting an invoice right after posting it leaves every product's  *)
(* quantity at its value before the posting.                               *)
(***************************************************************************)
C2_PostThenDeleteRestoresStock ==
    (last.op \in {"destroy_sale", "destroy_purchase"} /\ last.reverts)
        => \A p \in Products : product[p].quantity = last.before[p]

(***************************************************************************)
(* C3.  A successful sales posting whose line items ask for no more than   *)
(* the stock leaves each product at its stock minus the quantities posted  *)
(* for it, a successful purchase posting at its stock plus them; a product *)
(* no line item names keeps its stock.                                     *)
(***************************************************************************)
C3_PostingAdjustsStock ==
    /\ (last.op = "create_sale" /\ last.ok /\ ~last.exceeds_stock)
        => \A p \in Products :
             product[p].quantity
               = last.before[p] - QuantityNamed(salesInvoices[last.idx].items, p)
    /\ (last.op = "create_purchase" /\ last.ok)
        => \A p \in Products :
             product[p].quantity
               = last.before[p] + QuantityNamed(purchaseInvoices[last.idx].items, p)

C3_Witness ==
    /\ last.op = "create_sale" /\ last.ok /\ ~last.exceeds_stock
    /\ Len(salesInvoices[last.idx].items) > 0
    /\ product["p2"].exists

(***************************************************************************)
(* C4.  A sales or purchase posting that fails leaves no invoice, no line  *)
(* item, no stock change and no ledger transaction behind.                 *)
(***************************************************************************)
C4_FailedPostingLeavesNothing ==
    [][(last'.op \in {"create_sale", "create_purchase"} /\ ~last'.ok)
         => UNCHANGED db_vars]_vars

(***************************************************************************)
(* C5.  Every invoice that is no loan has amount_paid equal to its total,  *)
(* remaining_balance 0 and payment_status 'paid'.                          *)
(***************************************************************************)
C5_NonLoanFullyPaid ==
    \A inv \in AllInvoices :
        ~inv.is_loan => /\ inv.amount_paid = inv.total
                        /\ inv.remaining_balance = 0
                        /\ inv.payment_status = "paid"

(***************************************************************************)
(* C6.  Every loan invoice with amount_paid in [0, total] has              *)
(* remaining_balance = max(0, total - amount_paid) and the payment status  *)
(* of the three-way rule.  As stated, with 'unpaid' whenever amount_paid   *)
(* is 0, it fails on a loan invoice whose total is 0; it holds with        *)
(* 'unpaid' kept to amount_paid = 0 < total.                               *)
(***************************************************************************)
C6_LoanStatusAsStated ==
    \A inv \in AllInvoices :
        (inv.is_loan /\ 0 <= inv.amount_paid /\ inv.amount_paid <= inv.total)
            => /\ inv.remaining_balance = Max0(inv.total - inv.amount_paid)
               /\ StatusRule(inv)

C6_LoanStatus ==
    \A inv \in AllInvoices :
        (inv.is_loan /\ 0 <= inv.amount_paid /\ inv.amount_paid <= inv.total)
            => /\ inv.remaining_balance = Max0(inv.total - inv.amount_paid)
               /\ StatusRuleOrdered(inv)

C6_Witness ==
    /\ last.op \in {"sales_add_payment", "purchase_add_payment"} /\ last.ok
    /\ \E inv \in AllInvoices :
          inv.is_loan /\ 0 < inv.amount_paid /\ inv.amount_paid < inv.total
    /\ \E inv \in AllInvoices : inv.is_loan /\ inv.amount_paid = 0 /\ inv.total > 0

Rejectable(inv, amount) ==
    ~inv.is_loan \/ amount <= 0 \/ inv.amount_paid + amount > inv.total

C8_AddPaymentRejected ==
    [][/\ (last'.op = "sales_add_payment"
            /\ Rejectable(salesInvoices[last'.idx], last'.amount))
          => (~last'.ok /\ UNCHANGED db_vars)
       /\ (last'.op = "purchase_add_payment"
            /\ Rejectable(purchaseInvoices[last'.idx], last'.amount))
          => (~last'.ok /\ UNCHANGED db_vars)]_vars

C8_Witness ==
    /\ last.op = "sales_add_payment" /\ ~last.ok /\ last.amount > 0
    /\ salesInvoices[last.idx].is_loan
    /\ salesInvoices[last.idx].amount_paid + last.amount > salesInvoices[last.idx].total

(***************************************************************************)
(* C9.  add_payment on a loan invoice with amount > 0 and                  *)
(* amount_paid + amount <= total succeeds: one payment record of that      *)
(* amount is appended, amount_paid grows by the amount, remaining_balance  *)
(* and payment_status are refreshed.                                       *)
(***************************************************************************)
Accepted(old, new, amount) ==
    /\ new.loan_payments = Append(old.loan_payments, amount)
    /\ new.amount_paid = old.amount_paid + amount
    /\ new.remaining_balance = Max0(new.total - new.amount_paid)
    /\ StatusRule(new)
    /\ new.total = old.total /\ new.items = old.items

C9_AddPaymentAccepted ==
    [][/\ (last'.op = "sales_add_payment"
            /\ ~Rejectable(salesInvoices[last'.idx], last'.amount))
          => /\ last'.ok
             /\ Len(salesInvoices') = Len(salesInvoices)
             /\ Accepted(salesInvoices[last'.idx], salesInvoices'[last'.idx], last'.amount)
       /\ (last'.op = "purchase_add_payment"
            /\ ~Rejectable(purchaseInvoices[last'.idx], last'.amount))
          => /\ last'.ok
             /\ Len(purchaseInvoices') = Len(purchaseInvoices)
             /\ Accepted(purchaseInvoices[last'.idx], purchaseInvoices'[last'.idx],
                         last'.amount)]_vars

C9_Witness ==
    /\ last.op = "purchase_add_payment" /\ last.ok
    /\ purchaseInvoices[last.idx].payment_status = "partial"

(***************************************************************************)
(* C10.  The payment request handler, given a loan purchase invoice and a  *)
(* positive amount with amount_paid + amount <= total, records the payment *)
(* and answers with the updated invoice, not with an error.                *)
(***************************************************************************)
C10_PaymentRequestSucceeds ==
    [][(last'.op = "add_payment_request"
          /\ ~Rejectable(purchaseInvoices[last'.idx], last'.amount))
        => /\ last'.status = 200
           /\ Accepted(purchaseInvoices[last'.idx], purchaseInvoices'[last'.idx],
                       last'.amount)]_vars

(***************************************************************************)
(* C11.  A posting whose generated display id is already taken by an       *)
(* invoice of the same type, and which is otherwise acceptable, goes       *)
(* through the retry with a fresh id and succeeds, for sales and for       *)
(* purchases alike.                                                        *)
(***************************************************************************)
RequestTotal(items) ==
    SumSeq([i \in 1..Len(items) |-> items[i].quantity * items[i].price.value])

Acceptable(req) ==
    /\ \A i \in 1..Len(req.items) :
          req.items[i].price.kind = "number" /\ req.items[i].price.value > 0
    /\ req.is_loan => AmountPaidOf(req) <= RequestTotal(req.items)

C11_CollisionRetried ==
    /\ \A req \in SalesRequests :
          (/\ Acceptable(req)
           /\ ~ExceedsStock(DB, req.items)
           /\ SalesInvoiceId(DB, req) \in InvoiceIds(salesInvoices))
          => LET r == CreateSalesInvoiceSerializer_create(DB, req)
             IN r.ok /\ Len(r.db.sales) = Len(salesInvoices) + 1
    /\ \A req \in PurchaseRequests :
          (/\ Acceptable(req)
           /\ PurchaseInvoiceId(DB, req) \in InvoiceIds(purchaseInvoices))
          => LET r == CreatePurchaseInvoiceSerializer_create(DB, req)
             IN r.ok /\ Len(r.db.purchases) = Len(purchaseInvoices) + 1

(***************************************************************************)
(* C12.  Every product's on-hand quantity is at least 0.                   *)
(***************************************************************************)
C12_StockNeverNegative ==
    \A p \in Products : product[p].quantity >= 0

(***************************************************************************)
(* C13.  Each ledger's current_balance is the signed sum of its            *)
(* transactions (sale or purchase and interest add; payment, return,       *)
(* discount and adjustment subtract), and its running totals are the sums  *)
(* of its sale (purchase) and payment transactions.                        *)
(***************************************************************************)
Subtracting == {"payment", "return", "discount", "adjustment"}

SignedSum(t, adding) ==
    SumSeq([i \in 1..Len(t) |->
              IF t[i].transaction_type \in adding THEN t[i].amount
              ELSE IF t[i].transaction_type \in Subtracting THEN 0 - t[i].amount
              ELSE 0])

TypeSum(t, type) ==
    SumSeq([i \in 1..Len(t) |-> IF t[i].transaction_type = type THEN t[i].amount ELSE 0])

C13_LedgerIsFold ==
    /\ \A c \in Customers :
          LET l == customerLedger[c]
          IN /\ l.current_balance = SignedSum(l.transactions, {"sale", "interest"})
             /\ l.total_sales = TypeSum(l.transactions, "sale")
             /\ l.total_payments = TypeSum(l.transactions, "payment")
    /\ \A s \in Suppliers :
          LET l == supplierLedger[s]
          IN /\ l.current_balance = SignedSum(l.transactions, {"purchase", "interest"})
             /\ l.total_purchases = TypeSum(l.transactions, "purchase")
             /\ l.total_payments = TypeSum(l.transactions, "payment")

C13_Witness ==
    /\ last.op = "create_sale" /\ last.ok
    /\ customerLedger["c1"].total_payments > 0
    /\ customerLedger["c1"].current_balance > 0
    /\ Len(customerLedger["c1"].transactions) > 2

(***************************************************************************)
(* C14.  A successful posting appends to the counterparty's ledger one     *)
(* 'sale' ('purchase') transaction for the invoice total, then one         *)
(* 'payment' transaction for amount_paid when amount_paid > 0 and none     *)
(* when it is 0; the ledger's current_balance changes by                   *)
(* total - amount_paid.                                                    *)
(***************************************************************************)
Emitted(type, inv) ==
    <<Transaction(type, inv.total, inv.invoice_id)>>
    \o (IF inv.amount_paid > 0
        THEN <<Transaction("payment", inv.amount_paid, inv.invoice_id)>>
        ELSE <<>>)

C15_PaymentsSumToAmountPaid ==
    \A inv \in AllInvoices : SumSeq(inv.loan_payments) = inv.amount_paid

(***************************************************************************)
(* C16.  Every invoice flagged as a loan has amount_paid <= total.         *)
(***************************************************************************)
C16_LoanNeverOverpaid ==
    \A inv \in AllInvoices : inv.is_loan => inv.amount_paid <= inv.total

C18_AutoInvoice ==
    [][\A p \in Products :
          (~product[p].exists /\ product'[p].exists)
          => IF product'[p].supplier # NoSupplier /\ product'[p].quantity > 0
             THEN /\ Len(purchaseInvoices') = Len(purchaseInvoices) + 1
                  /\ SubSeq(purchaseInvoices', 1, Len(purchaseInvoices)) = purchaseInvoices
                  /\ LET inv == purchaseInvoices'[Len(purchaseInvoices')]
                     IN /\ inv.party = product'[p].supplier
                        /\ Len(inv.items) = 1
                        /\ inv.items[1].product = p
                        /\ inv.items[1].quantity = product'[p].quantity
                        /\ inv.items[1].price = product'[p].price
                        /\ inv.total = product'[p].quantity * product'[p].price
             ELSE purchaseInvoices' = purchaseInvoices]_vars

C18_Witness ==
    /\ last.op = "perform_create" /\ last.ok /\ last.idx > 0
    /\ purchaseInvoices[last.idx].items[1].product = "p2"
    /\ product["p2"].quantity = MaxQuantity
    /\ purchaseInvoices[last.idx].total = MaxQuantity * MaxPrice

(***************************************************************************)
(* C19.  update_balance run twice in a row gives the same current_balance  *)
(* and running totals as run once, whatever balance the ledger row held    *)
(* before.                                                                 *)
(***************************************************************************)
StaleBalances(ledger) == {ledger.current_balance, ledger.current_balance + 1}

C19_UpdateBalanceIdempotent ==
    /\ \A c \in Customers : \A b \in StaleBalances(customerLedger[c]) :
          LET once == CustomerLedger_update_balance(
                          [customerLedger[c] EXCEPT !.current_balance = b])
          IN CustomerLedger_update_balance(once) = once
    /\ \A s \in Suppliers : \A b \in StaleBalances(supplierLedger[s]) :
          LET once == SupplierLedger_update_balance(
                          [supplierLedger[s] EXCEPT !.current_balance = b])
          IN SupplierLedger_update_balance(once) = once

C19_Witness ==
    /\ Len(supplierLedger["s1"].transactions) > 1
    /\ supplierLedger["s1"].total_payments > 0
    /\ supplierLedger["s1"].current_balance > 0
    /\ Len(customerLedger["c1"].transactions) > 0

(***************************************************************************)
(* C20.  Each counterparty's ledger current_balance equals the sum of      *)
(* remaining_balance over that counterparty's existing invoices.           *)
(***************************************************************************)
Outstanding(invoices, party) ==
    SumSeq([i \in 1..Len(invoices) |->
              IF invoices[i].party = party THEN invoices[i].remaining_balance ELSE 0])

C20_BalanceMatchesInvoices ==
    /\ \A c \in Customers :
          customerLedger[c].current_balance = Outstanding(salesInvoices, c)
    /\ \A s \in Suppliers :
          supplierLedger[s].current_balance = Outstanding(purchaseInvoices, s)

(***************************************************************************)
(* C21.  A successful add_payment on a sales or purchase invoice appends   *)
(* no ledger transaction and leaves both ledgers, with their balances and  *)
(* running totals, as they were.                                           *)
(***************************************************************************)
C21_AddPaymentLeavesLedgers ==
    [][(last'.op \in {"sales_add_payment", "purchase_add_payment"} /\ last'.ok)
         => UNCHANGED <<customerLedger, supplierLedger>>]_vars

C21_Witness ==
    /\ last.op = "sales_add_payment" /\ last.ok
    /\ salesInvoices[last.idx].amount_paid = last.amount
    /\ Len(customerLedger[salesInvoices[last.idx].party].transactions) = 1
    /\ customerLedger[salesInvoices[last.idx].party].total_payments = 0

(***************************************************************************)
(* C22.  Deleting a sales or purchase invoice removes no ledger            *)
(* transaction and changes no balance and no running total: every          *)
(* transaction keeps its type and amount, only its reference to the        *)
(* deleted invoice is cleared.                                             *)
(***************************************************************************)
Balances(ledger) == [f \in DOMAIN ledger \ {"transactions"} |-> ledger[f]]

Entries(ledger) ==
    [i \in 1..Len(ledger.transactions) |->
        <<ledger.transactions[i].transaction_type, ledger.transactions[i].amount>>]

C22_DestroyKeepsLedgers ==
    [][last'.op \in {"destroy_sale", "destroy_purchase"}
         => /\ \A c \in Customers :
                 /\ Entries(customerLedger'[c]) = Entries(customerLedger[c])
                 /\ Balances(customerLedger'[c]) = Balances(customerLedger[c])
            /\ \A s \in Suppliers :
                 /\ Entries(supplierLedger'[s]) = Entries(supplierLedger[s])
                 /\ Balances(supplierLedger'[s]) = Balances(supplierLedger[s])]_vars

C22_Witness ==
    /\ last.op = "destroy_purchase"
    /\ purchaseInvoices = <<>>
    /\ Len(supplierLedger["s1"].transactions) = 2
    /\ \A i \in 1..2 : supplierLedger["s1"].transactions[i].reference_invoice = NoInvoice
    /\ supplierLedger["s1"].current_balance > 0

(***************************************************************************)
(* C28.  A successful add_payment never lowers the invoice's amount_paid,  *)
(* never raises its remaining_balance and moves its payment_status only    *)
(* forward in the order unpaid, partial, paid; on an invoice that is       *)
(* 'paid' with amount_paid equal to its total every add_payment fails.     *)
(***************************************************************************)
StatusRank(status) == IF status = "unpaid" THEN 0 ELSE IF status = "partial" THEN 1 ELSE 2

Monotone(old, new) ==
    /\ new.amount_paid >= old.amount_paid
    /\ new.remaining_balance <= old.remaining_balance
    /\ StatusRank(new.payment_status) >= StatusRank(old.payment_status)
    /\ new.items = old.items

Settled(inv) == inv.payment_status = "paid" /\ inv.amount_paid = inv.total

C28_PaymentsOnlyForward ==
    [][/\ last'.op = "sales_add_payment"
          => /\ last'.ok => Monotone(salesInvoices[last'.idx], salesInvoices'[last'.idx])
             /\ Settled(salesInvoices[last'.idx]) => ~last'.ok
       /\ last'.op \in {"purchase_add_payment", "add_payment_request"}
          => /\ last'.ok => Monotone(purchaseInvoices[last'.idx], purchaseInvoices'[last'.idx])
             /\ Settled(purchaseInvoices[last'.idx]) => ~last'.ok]_vars

C28_Witness ==
    /\ last.op = "purchase_add_payment" /\ ~last.ok /\ last.amount > 0
    /\ purchaseInvoices[last.idx].is_loan
    /\ Settled(purchaseInvoices[last.idx])
    /\ Len(purchaseInvoices[last.idx].loan_payments) = 2

(***************************************************************************)
(* C30.  Creating a product leaves the supplier ledgers, with their        *)
(* transactions, balances and running totals, as they were, also when it   *)
(* generates a purchase invoice; the same purchase posted through the      *)
(* purchase posting workflow succeeds and adds a purchase transaction for  *)
(* the invoice total to the supplier's ledger.                             *)
(***************************************************************************)
SamePurchase(inv) ==
    [party |-> inv.party, is_loan |-> FALSE, amount_paid |-> JAbsent,
     items |-> [i \in 1..Len(inv.items) |->
                  [product |-> inv.items[i].product, quantity |-> inv.items[i].quantity,
                   price |-> JNum(inv.items[i].price)]]]

C30_AutoInvoiceSkipsLedger ==
    [][last'.op = "perform_create"
         => /\ UNCHANGED supplierLedger
            /\ last'.idx > 0
               => LET inv == purchaseInvoices'[last'.idx]
                      old == supplierLedger[inv.party].transactions
                      r == CreatePurchaseInvoiceSerializer_create(DB', SamePurchase(inv))
                      new == r.db.sledger[inv.party]
                  IN /\ r.ok
                     /\ Len(new.transactions) = Len(old) + 1
                     /\ new.transactions[Len(old) + 1].transaction_type = "purchase"
                     /\ new.transactions[Len(old) + 1].amount = inv.total
                     /\ new.total_purchases = supplierLedger[inv.party].total_purchases
                                              + inv.total]_vars

C30_Witness ==
    /\ last.op = "perform_create" /\ last.ok /\ last.idx > 0
    /\ purchaseInvoices[last.idx].total > 0
    /\ \A s \in Suppliers :
          \A i \in 1..Len(supplierLedger[s].transactions) :
             supplierLedger[s].transactions[i].reference_invoice
               # purchaseInvoices[last.idx].invoice_id

(***************************************************************************)
(* C24.  Every line item of an invoice has a quantity of at least 1: a     *)
(* sales or purchase posting with a line item of quantity 0 or of a        *)
(* negative quantity is rejected and changes nothing.                      *)
(***************************************************************************)
BadQuantities == {0 - 1, 0}

WithQuantity(req, q) == [req EXCEPT !.items[1].quantity = q]

C24_QuantityAtLeastOne ==
    /\ \A inv \in AllInvoices :
          \A i \in 1..Len(inv.items) : inv.items[i].quantity >= 1
    /\ \A req \in SalesRequests : \A q \in BadQuantities :
          Len(req.items) > 0
          => LET r == CreateSalesInvoiceSerializer_create(DB, WithQuantity(req, q))
             IN ~r.ok /\ r.db = DB
    /\ \A req \in PurchaseRequests : \A q \in BadQuantities :
          Len(req.items) > 0
          => LET r == CreatePurchaseInvoiceSerializer_create(DB, WithQuantity(req, q))
             IN ~r.ok /\ r.db = DB

(***************************************************************************)
(* C25.  Creating a product with a supplier, a quantity above 0 and an     *)
(* amount_paid below quantity times cost price succeeds and generates a    *)
(* loan purchase invoice with that amount_paid, remaining_balance total    *)
(* minus amount_paid and payment_status 'partial' ('unpaid' for amount 0); *)
(* without amount_paid the invoice is no loan and amount_paid is the total.*)
(***************************************************************************)
C25_ProductLoanInvoice ==
    \A req \in ProductRequests :
       (~product[req.product].exists /\ req.supplier \in Suppliers /\ req.quantity > 0)
       => LET r == ProductViewSet_perform_create(DB, req)
              total == req.quantity * req.price
              inv == r.db.purchases[Len(r.db.purchases)]
          IN /\ r.ok
             /\ Len(r.db.purchases) = Len(purchaseInvoices) + 1
             /\ (req.amount_paid.kind = "number" /\ req.amount_paid.value < total)
                => /\ inv.is_loan
                   /\ inv.amount_paid = req.amount_paid.value
                   /\ inv.remaining_balance = total - req.amount_paid.value
                   /\ inv.payment_status = IF req.amount_paid.value = 0 THEN "unpaid"
                                           ELSE "partial"
             /\ req.amount_paid.kind = "absent"
                => ~inv.is_loan /\ inv.amount_paid = inv.total

(***************************************************************************)
(* C26.  A sales posting with two line items for the same product, each    *)
(* quantity within the stock S: when the two quantities together exceed S  *)
(* it fails and leaves the stock at S, otherwise it succeeds and leaves    *)
(* the stock at S minus both quantities.                                   *)
(***************************************************************************)
C26_CumulativeStockCheck ==
    \A req \in SalesRequests :
       (/\ Acceptable(req)
        /\ Len(req.items) = 2
        /\ req.items[1].product = req.items[2].product
        /\ AllProductsExist(DB, req.items)
        /\ ~ExceedsStock(DB, req.items))
       => LET p == req.items[1].product
              S == product[p].quantity
              Q == req.items[1].quantity + req.items[2].quantity
              r == CreateSalesInvoiceSerializer_create(DB, req)
          IN IF Q > S THEN ~r.ok /\ r.db.product[p].quantity = S
             ELSE r.ok /\ r.db.product[p].quantity = S - Q

(***************************************************************************)
(* C27.  A sales posting whose display id collides goes through the retry, *)
(* and when it returns an invoice its effects are there exactly once: one  *)
(* new invoice, one line item per requested item, each product's stock     *)
(* lowered by the quantities requested for it, and the customer's ledger   *)
(* extended by one sale transaction and, for amount_paid above 0, one      *)
(* payment transaction; nothing else changes.                              *)
(***************************************************************************)
C27_RetryAppliesOnce ==
    \A req \in SalesRequests :
       (/\ AllProductsExist(DB, req.items)
        /\ SalesInvoiceId(DB, req) \in InvoiceIds(salesInvoices))
       => LET r == CreateSalesInvoiceSerializer_create(DB, req)
              n == Len(salesInvoices)
              inv == r.db.sales[n + 1]
          IN /\ r.retried
             /\ r.ok
                => /\ Len(r.db.sales) = n + 1
                   /\ SubSeq(r.db.sales, 1, n) = salesInvoices
                   /\ r.db.purchases = purchaseInvoices
                   /\ Len(inv.items) = Len(req.items)
                   /\ \A i \in 1..Len(req.items) :
                         /\ inv.items[i].product = req.items[i].product
                         /\ inv.items[i].quantity = req.items[i].quantity
                   /\ \A p \in Products :
                         /\ r.db.product[p].quantity
                              = product[p].quantity - QuantityNamed(req.items, p)
                         /\ r.db.product[p].exists = product[p].exists
                   /\ r.db.cledger[req.party].transactions
                        = customerLedger[req.party].transactions \o Emitted("sale", inv)
                   /\ r.db.sledger = supplierLedger

C27_Witness ==
    /\ last.op = "create_sale" /\ last.ok /\ last.retried
    /\ Len(salesInvoices) = 2
    /\ Len(salesInvoices[2].items) > 0
    /\ salesInvoices[2].amount_paid > 0
    /\ Len(customerLedger[salesInvoices[2].party].transactions) = 3

(***************************************************************************)
(* C23.  Two sales postings for the same product that run at once race on  *)
(* its quantity: each writes the quantity it read less its own line        *)
(* quantities, so the posting that commits last leaves the product at      *)
(* the quantity it read minus what it sold, whatever the other posting     *)
(* committed in between.  (The witness is the interleaving in which both   *)
(* pass the stock check and commit and the quantity is not S - Q1 - Q2.)   *)
(***************************************************************************)
C23_ReadModifyWrite ==
    \A w \in Workers :
       (inflight[w].outcome = "committed" /\ inflight[w].order = Commits)
       => \A p \in Catalogue :
             product[p].quantity
               = inflight[w].read - QuantityNamed(inflight[w].req.items, p)

C23_Witness ==
    /\ \A w \in Workers : inflight[w].outcome = "committed"
    /\ LET S == last.before["p1"]
           Q1 == QuantityNamed(inflight["w1"].req.items, "p1")
           Q2 == QuantityNamed(inflight["w2"].req.items, "p1")
       IN /\ Q1 + Q2 <= S
          /\ product["p1"].quantity # S - Q1 - Q2

(***************************************************************************)
(* C29.  When the add_payment calls that ran at once on a loan invoice     *)
(* have ended, its amount_paid is at most its total and has grown by the   *)
(* sum of the amounts of the payment records they created.                 *)
(***************************************************************************)
C29_ConcurrentPaymentsAddUp ==
    (\A w \in Workers : inflight[w].job = "pay" => inflight[w].pc = "done")
    => \A idx \in 1..Len(purchaseInvoices) :
          LET inv == purchaseInvoices[idx]
              first == InitialDB.purchases[idx]
          IN /\ inv.amount_paid <= inv.total
             /\ inv.amount_paid - first.amount_paid
                  = SumSeq(inv.loan_payments) - SumSeq(first.loan_payments)

====
